---- MODULE Spec2Model ----
(***************************************************************************)
(* The per-user daily generation quota of src/api/main.py: the user        *)
(* records of the `users` collection, check_generation_limit,              *)
(* increment_generation_count and the two generation endpoints that call   *)
(* them.                                                                   *)
(*                                                                         *)
(* A Firestore transaction is serializable, so a committed transaction is  *)
(* one atomic step on the record.  A transaction whose body raises is      *)
(* rolled back: none of its writes reach the store.                        *)
(*                                                                         *)
(* Time is counted in ticks of twelve hours; timedelta(hours=24) is DAY    *)
(* ticks.  An ISO-8601 string is modelled by what datetime.fromisoformat   *)
(* makes of it: a time with or without a timezone, or a ValueError.        *)
(***************************************************************************)
EXTENDS Integers, FiniteSets, Sequences, TLC

\* ------------------------------------------------------------------ bounds
NumReqs == 2          \* request slots that may be in flight at once
MaxTime == 4          \* the clock stops advancing here
MaxCount == 24        \* cap on dailyGenerations (increment is disabled beyond)
MaxRuns == 2          \* runs of the migration backfill

\* ------------------------------------------------------- program constants
FREE_LIMIT == 3       \* 'maxDailyGenerations': 3
PRO_LIMIT == 20       \* 'maxDailyGenerations': 20
DAY == 2              \* timedelta(hours=24), in ticks

Users == {"u1", "u2"}
Emails == {"a@x", "b@x"}
Reqs == 1..NumReqs

\* --------------------------------------------------------------- timestamps
\* A stored timestamp field: the key is missing ("absent"), holds None or ""
\* ("none"), holds a string fromisoformat rejects ("bad"), or holds an
\* ISO-8601 time, timezone-aware or naive ("time").
NoTS == [kind |-> "absent", t |-> 0, aware |-> FALSE]
NoneTS == [kind |-> "none", t |-> 0, aware |-> FALSE]
BadTS == [kind |-> "bad", t |-> 0, aware |-> FALSE]
TimeTS(t, aware) == [kind |-> "time", t |-> t, aware |-> aware]

\* current_time.isoformat(): the string keeps the offset of an aware time.
isoformat(dt) == TimeTS(dt.t, dt.aware)

\* Python truthiness of a field read with dict.get: a missing key and None
\* are falsy, every non-empty string is truthy.
Truthy(ts) == ts.kind \in {"bad", "time"}

\* ------------------------------------------------------------------ records
\* One document of the `users` collection.  max and daily are -1 when the
\* key is missing; plan is "absent" when the key is missing.
NoDoc ==
    [exists |-> FALSE, email |-> "", plan |-> "absent", max |-> -1, daily |-> -1,
     first |-> NoTS, last |-> NoTS, expiry |-> NoTS]

\* user_data.get('maxDailyGenerations', 3)
GetMax(d) == IF d.max = -1 THEN FREE_LIMIT ELSE d.max

\* user_data.get('dailyGenerations', 0)
GetDaily(d) == IF d.daily = -1 THEN 0 ELSE d.daily

\* user_data.get('plan', 'free')
GetPlan(d) == IF d.plan = "absent" THEN "free" ELSE d.plan

\* ------------------------------------------------- check_generation_limit
\* The record written for an unseen user.  The two timestamps are two
\* separate datetime.now() reads, t1 and t2.
NewUser(email, t1, t2) ==
    [exists |-> TRUE, email |-> email, plan |-> "free", max |-> FREE_LIMIT,
     daily |-> 0, first |-> TimeTS(t1, FALSE), last |-> TimeTS(t2, FALSE),
     expiry |-> NoneTS]

\* "Update maxDailyGenerations based on current plan": a write only when the
\* value read (3 when the key is missing) differs from the plan's limit.
SyncMax(d) ==
    IF GetPlan(d) = "pro"
    THEN (IF GetMax(d) # PRO_LIMIT THEN [d EXCEPT !.max = PRO_LIMIT] ELSE d)
    ELSE IF GetPlan(d) = "free"
    THEN (IF GetMax(d) # FREE_LIMIT THEN [d EXCEPT !.max = FREE_LIMIT] ELSE d)
    ELSE d

\* user_data.get('firstGenerationDate', user_data.get('lastGenerationDate')):
\* lastGenerationDate is used only when the firstGenerationDate key is missing.
AnchorStr(d) == IF d.first.kind # "absent" THEN d.first ELSE d.last

\* first_gen_date and current_time as the parse leaves them: the parsed anchor
\* and a now in the anchor's timezone, or a naive now for both.
FirstGenDate(d, now) ==
    IF AnchorStr(d).kind = "time"
    THEN [t |-> AnchorStr(d).t, aware |-> AnchorStr(d).aware]
    ELSE [t |-> now, aware |-> FALSE]

CurrentTime(d, now) == [t |-> now, aware |-> FirstGenDate(d, now).aware]

\* current_time > expiry_date raises TypeError when exactly one of the two is
\* timezone-aware; only ValueError is caught there.
ExpiryRaises(d, cur) == d.expiry.kind = "time" /\ d.expiry.aware # cur.aware

\* A downgrade that also starts a new window at the time of the call.
Downgrade_restart(d, cur) ==
    IF d.expiry.kind = "time" /\ cur.t > d.expiry.t /\ d.plan = "pro"
    THEN [d EXCEPT !.plan = "free", !.max = FREE_LIMIT, !.expiry = NoneTS,
                   !.first = isoformat(cur), !.last = isoformat(cur)]
    ELSE d

\* "Check for subscription expiry": the downgrade of an expired pro plan.
Downgrade(d, cur) ==
    IF d.expiry.kind = "time" /\ cur.t > d.expiry.t /\ d.plan = "pro"
    THEN [d EXCEPT !.plan = "free", !.max = FREE_LIMIT, !.expiry = NoneTS]
    ELSE d

\* time_since_first >= timedelta(hours=24)
WindowOver(d, now) == CurrentTime(d, now).t - FirstGenDate(d, now).t >= DAY

\* A reset that starts the new window and keeps the old count.
ResetWindow_keepcount(d, cur) ==
    [d EXCEPT !.first = isoformat(cur), !.last = isoformat(cur)]

\* The window reset of check.
ResetWindow(d, cur) ==
    [d EXCEPT !.daily = 0, !.first = isoformat(cur), !.last = isoformat(cur)]

\* An off-by-one comparison that denies the last generation of the window.
CanGenerate_early(d) == GetDaily(d) + 1 < GetMax(d)

\* An off-by-one comparison that allows one generation past the limit.
CanGenerate_late(d) == GetDaily(d) <= GetMax(d)

\* can_generate = current_count < max_count
CanGenerate(d) == GetDaily(d) < GetMax(d)

\* The body of the transaction: exc when it raises (the writes are then
\* rolled back), else the value returned and the record committed.
check_limit_transaction(d, email, t1, t2) ==
    IF ~d.exists
    THEN [exc |-> FALSE, ret |-> TRUE, doc |-> NewUser(email, t1, t2), path |-> "create"]
    ELSE LET synced == SyncMax(d)
             cur == CurrentTime(synced, t1)
         IN  IF Truthy(synced.expiry) /\ ExpiryRaises(synced, cur)
             THEN [exc |-> TRUE, ret |-> FALSE, doc |-> d, path |-> "typeerror"]
             ELSE LET down == IF Truthy(synced.expiry) THEN Downgrade(synced, cur) ELSE synced
                  IN  IF WindowOver(down, t1)
                      THEN [exc |-> FALSE, ret |-> TRUE, doc |-> ResetWindow(down, cur),
                            path |-> "reset"]
                      ELSE [exc |-> FALSE, ret |-> CanGenerate(down), doc |-> down,
                            path |-> "count"]

\* Faults of the store a call may meet: none, the transaction fails ("txn"),
\* the transaction and the plain read fail ("read"), firestore.client() or
\* the document reference fails ("client").
Faults == {"none", "txn", "read", "client"}

\* A fallback that denies every user whose record it finds.
FallbackCheck_closed(d, fault) ==
    IF fault = "read"
    THEN [exc |-> TRUE, ret |-> FALSE]
    ELSE [exc |-> FALSE, ret |-> ~d.exists]

\* "Fallback: check without transaction": a plain read of the stored record.
FallbackCheck(d, fault) ==
    IF fault = "read"
    THEN [exc |-> TRUE, ret |-> FALSE]
    ELSE [exc |-> FALSE, ret |-> IF d.exists THEN CanGenerate(d) ELSE TRUE]

\* except Exception as fallback_error: return True
CatchFallback(fb) == IF fb.exc THEN [exc |-> FALSE, ret |-> TRUE] ELSE fb

\* "Run the transaction" with its except branch.
RunTransaction(d, email, t1, t2, fault) ==
    LET txn == IF fault \in {"txn", "read"}
               THEN [exc |-> TRUE, ret |-> FALSE, doc |-> d, path |-> "txnfail"]
               ELSE check_limit_transaction(d, email, t1, t2)
    IN  IF txn.exc
        THEN LET fb == CatchFallback(FallbackCheck(d, fault))
             IN  [exc |-> fb.exc, ret |-> fb.ret, doc |-> d,
                  path |-> IF fault = "read" THEN "failopen" ELSE "fallback"]
        ELSE txn

\* No outermost handler: the exception leaves check_generation_limit.
CatchOuter_off(r) == r

\* The outermost handler: except Exception: return False.  The caller's own
\* except (can_generate = True) stands behind it.
CatchOuter(r) ==
    IF r.exc THEN [exc |-> FALSE, ret |-> FALSE, doc |-> r.doc, path |-> "failclosed"] ELSE r

check_generation_limit(d, email, t1, t2, fault) ==
    CatchOuter(IF fault = "client"
               THEN [exc |-> TRUE, ret |-> FALSE, doc |-> d, path |-> "client"]
               ELSE RunTransaction(d, email, t1, t2, fault))

\* --------------------------------------------- increment_generation_count
\* An increment that looks at the limit and leaves a full count as it is.
increment_transaction_capped(d, now) ==
    IF ~d.exists
    THEN [exc |-> TRUE, doc |-> d]
    ELSE LET cur == CurrentTime(d, now)
         IN  IF WindowOver(d, now)
             THEN [exc |-> FALSE,
                   doc |-> [d EXCEPT !.daily = 1, !.first = isoformat(cur),
                                     !.last = isoformat(cur)]]
             ELSE [exc |-> FALSE,
                   doc |-> [d EXCEPT !.daily = IF CanGenerate(d) THEN GetDaily(d) + 1
                                               ELSE GetDaily(d),
                                     !.last = isoformat(cur)]]

\* The body of the transaction.  to_dict() of a missing document is None and
\* the first .get raises.
increment_transaction(d, now) ==
    IF ~d.exists
    THEN [exc |-> TRUE, doc |-> d]
    ELSE LET cur == CurrentTime(d, now)
         IN  IF WindowOver(d, now)
             THEN [exc |-> FALSE,
                   doc |-> [d EXCEPT !.daily = 1, !.first = isoformat(cur),
                                     !.last = isoformat(cur)]]
             ELSE [exc |-> FALSE,
                   doc |-> [d EXCEPT !.daily = GetDaily(d) + 1, !.last = isoformat(cur)]]

\* An increment that degrades as check does: a failure is swallowed and a
\* missing record is created with a count of 1.
increment_generation_count_failopen(d, now, fault) ==
    IF fault # "none"
    THEN [exc |-> FALSE, doc |-> d]
    ELSE IF ~d.exists
    THEN [exc |-> FALSE, doc |-> [NewUser("", now, now) EXCEPT !.daily = 1]]
    ELSE increment_transaction(d, now)

\* except Exception: raise -- the failure reaches the caller, nothing is written.
increment_generation_count(d, now, fault) ==
    IF fault # "none" THEN [exc |-> TRUE, doc |-> d] ELSE increment_transaction(d, now)

\* A read-modify-write outside any transaction: the count that was read,
\* plus one, is written over whatever the record holds by then.
commit_increment_rmw(snap, cur, now) ==
    [ok |-> TRUE,
     doc |-> [cur EXCEPT !.daily = GetDaily(snap) + 1,
                         !.last = isoformat(CurrentTime(snap, now))]]

\* The commit of increment_transaction as the store decides it: refused when
\* the document has changed since the transaction read it (the decorator then
\* runs the body again), else the writes are applied, Increment(1) to the
\* value the store holds.
commit_increment(snap, cur, now) ==
    IF snap # cur
    THEN [ok |-> FALSE, doc |-> cur]
    ELSE [ok |-> TRUE, doc |-> increment_transaction(cur, now).doc]

\* The commit of check_limit_transaction with the store's validation left
\* out: what the body wrote from its snapshot is applied to whatever the
\* store holds.
commit_check_blind(snap, cur, email, now) ==
    [ok |-> TRUE, res |-> check_generation_limit(snap, email, now, now, "none")]

\* The commit of check_limit_transaction as the store decides it: refused when
\* the document has changed since the transaction read it (the decorator then
\* runs the body again), else the writes of the body are applied and check
\* returns what the body returned.
commit_check(snap, cur, email, now) ==
    IF snap # cur
    THEN [ok |-> FALSE, res |-> check_generation_limit(cur, email, now, now, "none")]
    ELSE [ok |-> TRUE, res |-> check_generation_limit(cur, email, now, now, "none")]

\* ------------------------------------------------- migrate_existing_users
\* 'firstGenerationDate' not in user_data
LacksFirst(d) == d.first.kind = "absent"

\* user_data.get('lastGenerationDate', datetime.now().isoformat()): the value
\* is copied as it is stored, whether it parses or not.
BackfillValue(d, now) == IF d.last.kind # "absent" THEN d.last ELSE TimeTS(now, FALSE)

\* A backfill that writes every record it visits.
backfill_always(seen, cur, now) == [cur EXCEPT !.first = BackfillValue(seen, now)]

\* One turn of the loop on the document `seen` the stream returned:
\* user_ref.update writes the one field into the record `cur` the store holds.
backfill(seen, cur, now) ==
    IF LacksFirst(seen) THEN [cur EXCEPT !.first = BackfillValue(seen, now)] ELSE cur

\* ------------------------------------ simple_user_check, debug_user_status
\* The difference as the 429 branch computes it: max_count - current_count.
Remaining_signed(d) == GetMax(d) - GetDaily(d)

\* max(0, max_count - current_count)
Remaining(d) == IF GetMax(d) - GetDaily(d) > 0 THEN GetMax(d) - GetDaily(d) ELSE 0

\* GET /simple-check/{user_id}: the response, under a fault of the read.
simple_user_check(d, fault) ==
    IF fault # "none"
    THEN [status |-> 500, can |-> FALSE, rem |-> -1]
    ELSE IF ~d.exists
    THEN [status |-> 404, can |-> FALSE, rem |-> -1]
    ELSE [status |-> 200, can |-> CanGenerate(d), rem |-> Remaining(d)]

\* GET /debug/user/{user_id}: the response.  now is naive, and
\* now - first_gen_date raises TypeError on a timezone-aware anchor.
debug_user_status(d, now, fault) ==
    IF fault # "none"
    THEN [status |-> 500, can |-> FALSE, rem |-> -1]
    ELSE IF ~d.exists
    THEN [status |-> 404, can |-> FALSE, rem |-> -1]
    ELSE IF FirstGenDate(d, now).aware
    THEN [status |-> 500, can |-> FALSE, rem |-> -1]
    ELSE [status |-> 200, can |-> CanGenerate(d), rem |-> Remaining(d)]

\* -------------------------------------------------------------------- state
VARIABLES
    store,   \* the `users` collection: user id -> document
    clock,   \* what datetime.now() returns
    req,     \* the requests in flight, by slot
    last,    \* the last call of check or increment: its input and its outcome
    run,     \* per user: the (check; increment) pairs made inside the window
             \* that started with dailyGenerations = 0, and the generations
             \* of /generate recorded lately, by their age
    mig      \* migrate_existing_users: where its loop stands

vars == <<store, clock, req, last, run, mig>>

\* A request slot: where the handler stands, what check told it, whether the
\* pipeline ran, how often increment was invoked, and the response (status;
\* for a 429 the counts and the upsell suffix of its message; for the read
\* endpoints canGenerate and remainingGenerations).  For a check taken step by
\* step: whether the user had no record when it began, and the count in the
\* record its committed attempt read.
IdleReq ==
    [pc |-> "idle", ep |-> "", kind |-> "", user |-> "u1", can |-> FALSE, status |-> 0,
     ran |-> FALSE, incs |-> 0, cur |-> -1, max |-> -1, upsell |-> FALSE,
     snap |-> NoDoc, tries |-> 0, rem |-> -1, unseen |-> FALSE, read |-> -1]

\* The migration: the documents its stream returned, those the loop has still
\* to visit, whether a run raised, the runs started, and the collection as
\* the first run left it.
NoMig ==
    [pc |-> "idle", seen |-> [u \in Users |-> NoDoc], todo |-> {}, ok |-> TRUE,
     runs |-> 0, left |-> [u \in Users |-> NoDoc]]

NoCall ==
    [op |-> "none", user |-> "u1", ret |-> FALSE, exc |-> FALSE, path |-> "",
     pre |-> NoDoc, t |-> 0, email |-> "", fault |-> "none", after |-> "", was |-> -1,
     den |-> -1]

\* Records as check and increment leave them inside a running window, under
\* a plan with no expiry or one that lies ahead.
WindowDocs ==
    {[exists |-> TRUE, email |-> "a@x", plan |-> p,
      max |-> IF p = "pro" THEN PRO_LIMIT ELSE FREE_LIMIT, daily |-> n,
      first |-> TimeTS(DAY, FALSE), last |-> TimeTS(DAY, FALSE), expiry |-> x] :
        p \in {"free", "pro"}, n \in {0, 2}, x \in {NoneTS, TimeTS(MaxTime, FALSE)}}

\* Records as check and increment leave them inside a running window, under
\* a plan that does not expire; the count may lie past the limit, as
\* increment does not look at it.
CountDocs ==
    {[exists |-> TRUE, email |-> "a@x", plan |-> p,
      max |-> IF p = "pro" THEN PRO_LIMIT ELSE FREE_LIMIT, daily |-> n,
      first |-> TimeTS(DAY, FALSE), last |-> TimeTS(DAY, FALSE), expiry |-> NoneTS] :
        p \in {"free", "pro"}, n \in {-1, 0, 2, FREE_LIMIT, PRO_LIMIT}}

\* Records as check and increment leave them, in a window that runs or is
\* over, under a plan that may be about to expire.
GateDocs ==
    {[exists |-> TRUE, email |-> "a@x", plan |-> p,
      max |-> IF p = "pro" THEN PRO_LIMIT ELSE FREE_LIMIT, daily |-> n,
      first |-> TimeTS(t, FALSE), last |-> TimeTS(t, FALSE), expiry |-> x] :
        p \in {"free", "pro"}, n \in {0, 2, 3}, t \in {0, DAY},
        x \in {NoneTS, TimeTS(DAY, FALSE), TimeTS(MaxTime, FALSE)}}

\* Records of any content the collection may hold: written by older versions
\* of the service, by a subscription's plan change, or by hand.
AnyDocs ==
    {[exists |-> TRUE, email |-> "a@x", plan |-> p, max |-> m, daily |-> n,
      first |-> f, last |-> l, expiry |-> x] :
        p \in {"free", "pro", "absent"}, m \in {-1, FREE_LIMIT, PRO_LIMIT},
        n \in {-1, 0, FREE_LIMIT, PRO_LIMIT},
        f \in {NoTS, NoneTS, BadTS} \cup {TimeTS(t, a) : t \in {0, DAY}, a \in BOOLEAN},
        l \in {NoTS, BadTS, TimeTS(0, FALSE)},
        x \in {NoneTS, BadTS, TimeTS(0, FALSE), TimeTS(0, TRUE), TimeTS(MaxTime, FALSE)}}

\* Records of before and after the migration: with or without
\* firstGenerationDate, with or without a lastGenerationDate that parses.
MigDocs ==
    {[exists |-> TRUE, email |-> "a@x", plan |-> p,
      max |-> IF p = "pro" THEN PRO_LIMIT ELSE FREE_LIMIT, daily |-> n,
      first |-> f, last |-> l, expiry |-> NoneTS] :
        p \in {"free", "pro"}, n \in {0, FREE_LIMIT},
        f \in {NoTS, NoneTS, TimeTS(0, FALSE), TimeTS(DAY, FALSE)},
        l \in {NoTS, BadTS, TimeTS(0, FALSE)}}

InitRest ==
    /\ clock = DAY
    /\ req = [r \in Reqs |-> IdleReq]
    /\ last = NoCall
    /\ run = [u \in Users |-> [n |-> 0, valid |-> store[u].exists /\ store[u].daily = 0,
                              gens |-> <<>>]]
    /\ mig = NoMig

InitWith(docs) ==
    /\ store \in {[u \in Users |-> IF u = "u1" THEN d ELSE NoDoc] : d \in docs \cup {NoDoc}}
    /\ InitRest

Init == InitWith(WindowDocs)

InitGate == InitWith(GateDocs)

InitCount == InitWith(CountDocs)

InitMig == InitWith(MigDocs)

\* Records at the limit of their plan, with a window anchor of any stored
\* form: written by this service, or before firstGenerationDate existed, or
\* by hand.
AgainDocs ==
    {[exists |-> TRUE, email |-> "a@x", plan |-> p,
      max |-> IF p = "pro" THEN PRO_LIMIT ELSE FREE_LIMIT,
      daily |-> IF p = "pro" THEN PRO_LIMIT ELSE FREE_LIMIT,
      first |-> f, last |-> l, expiry |-> NoneTS] :
        p \in {"free", "pro"},
        f \in {NoTS, NoneTS, BadTS, TimeTS(0, FALSE), TimeTS(DAY, FALSE), TimeTS(DAY, TRUE)},
        l \in {NoTS, BadTS, TimeTS(0, FALSE), TimeTS(DAY, FALSE)}}

InitAgain == InitWith(AgainDocs)

\* No user has a record yet.
InitNew == InitWith({})

\* Records inside a running window, with the generations of the last 24
\* hours kept from here on.
InitRoll ==
    /\ store \in {[u \in Users |-> IF u = "u1" THEN d ELSE NoDoc] : d \in WindowDocs \cup {NoDoc}}
    /\ clock = DAY
    /\ req = [r \in Reqs |-> IdleReq]
    /\ last = NoCall
    /\ run = [u \in Users |-> [n |-> 0, valid |-> store[u].exists /\ store[u].daily = 0,
                              gens |-> [i \in 1..DAY |-> 0]]]
    /\ mig = NoMig

\* Records of any counts and any window anchor, under the free plan.
ViewDocs == {d \in AnyDocs : d.plan = "free" /\ d.expiry = NoneTS /\ d.last = NoTS}

InitView == InitWith(ViewDocs)

\* A collection of several users' records.
InitBackfill ==
    /\ store \in [Users -> MigDocs \cup {NoDoc}]
    /\ InitRest

InitAny == InitWith(AnyDocs)

\* ------------------------------------------------------------------ actions
\* A POST /generate for user u arrives: prompt and userId are present.
StartGenerate(r, u) ==
    /\ req[r].pc = "idle"
    /\ req' = [req EXCEPT ![r] = [IdleReq EXCEPT !.pc = "check", !.ep = "generate",
                                                  !.user = u]]
    /\ UNCHANGED <<store, clock, last, run, mig>>

\* A POST /generate-with-image for user u arrives: the handler goes straight
\* to the generation pipeline.
StartImage(r, u) ==
    /\ req[r].pc = "idle"
    /\ req' = [req EXCEPT ![r] = [IdleReq EXCEPT !.pc = "gen", !.ep = "image", !.user = u]]
    /\ UNCHANGED <<store, clock, last, run, mig>>

\* The histories after k ticks of the clock: what was recorded longer ago
\* than the history is kept is forgotten.
Aged(h, k) ==
    [u \in Users |->
        [h[u] EXCEPT !.gens = [i \in DOMAIN h[u].gens |->
                                  IF i - k >= 1 THEN h[u].gens[i - k] ELSE 0]]]

\* can_generate = await check_generation_limit(user_id, email), under a fault
\* of the store.  The clock may advance between the two reads of a creation.
CheckCall(r, fault) ==
    /\ req[r].pc = "check"
    /\ \E t2 \in {clock, clock + 1}, e \in Emails :
          /\ t2 <= MaxTime
          /\ (store[req[r].user].exists \/ fault # "none") => (t2 = clock /\ e = "a@x")
          /\ LET u == req[r].user
                 res == check_generation_limit(store[u], e, clock, t2, fault)
                 can == IF res.exc THEN TRUE ELSE res.ret
             IN  /\ store' = [store EXCEPT ![u] = res.doc]
                 /\ req' = [req EXCEPT ![r].can = can,
                                       ![r].pc = IF can THEN "gen" ELSE "denied"]
                 /\ last' = [op |-> "check", user |-> u, ret |-> res.ret, exc |-> res.exc,
                             path |-> res.path, pre |-> store[u], t |-> clock,
                             email |-> e, fault |-> fault, after |-> "",
                             was |-> store[u].daily,
                             den |-> IF last.op = "check" /\ last.user = u /\ ~last.ret
                                     THEN last.t ELSE -1]
                 /\ run' = [Aged(run, t2 - clock) EXCEPT ![u] =
                               IF res.path \in {"create", "reset"}
                               THEN [@ EXCEPT !.n = 0, !.valid = TRUE] ELSE @]
          /\ clock' = t2
    /\ UNCHANGED mig

Check(r) == CheckCall(r, "none")

CheckTxnFails(r) == CheckCall(r, "txn")

CheckReadFails(r) == CheckCall(r, "read")

CheckClientFails(r) == CheckCall(r, "client")

\* if not can_generate: the record is read again for the message
\* (<current>/<max>, and the upsell suffix when plan == 'free'); a missing
\* record raises and the handler answers 500.
Deny(r) ==
    /\ req[r].pc = "denied"
    /\ LET d == store[req[r].user]
       IN  req' = [req EXCEPT ![r].pc = "done",
                              ![r].status = IF d.exists THEN 429 ELSE 500,
                              ![r].cur = IF d.exists THEN GetDaily(d) ELSE -1,
                              ![r].max = IF d.exists THEN GetMax(d) ELSE -1,
                              ![r].upsell = d.exists /\ d.plan = "free"]
    /\ UNCHANGED <<store, clock, last, run, mig>>

\* The generation pipeline reports success or failure; only the full-stack
\* path of /generate looks at the flag and answers 500 on failure.
Generate(r) ==
    /\ req[r].pc = "gen"
    /\ \E ok \in BOOLEAN, k \in {"edit", "fullstack", "single"} :
          /\ req[r].ep = "image" => k # "edit"
          /\ LET failed == req[r].ep = "generate" /\ k = "fullstack" /\ ~ok
             IN  req' = [req EXCEPT ![r].kind = k, ![r].ran = TRUE,
                                    ![r].pc = IF failed THEN "done" ELSE "inc",
                                    ![r].status = IF failed THEN 500 ELSE 0]
    /\ UNCHANGED <<store, clock, last, run, mig>>

\* The history of a user after one more generation of /generate was
\* recorded: gens[i] is the number recorded i - 1 ticks ago, as far back as
\* the history is kept.
Recorded(h) ==
    [h EXCEPT !.gens = [i \in DOMAIN h.gens |-> IF i = 1 THEN h.gens[i] + 1 ELSE h.gens[i]]]

\* await increment_generation_count(user_id), under a fault of the store.
IncrementCall(r, fault) ==
    /\ req[r].pc = "inc"
    /\ GetDaily(store[req[r].user]) < MaxCount
    /\ LET u == req[r].user
           res == increment_generation_count(store[u], clock, fault)
       IN  /\ store' = [store EXCEPT ![u] = res.doc]
           /\ req' = [req EXCEPT ![r].pc = "done", ![r].kind = "",
                                 ![r].incs = @ + 1,
                                 ![r].status = IF res.exc THEN 500 ELSE 200]
           /\ last' = [op |-> "increment", user |-> u, ret |-> ~res.exc, exc |-> res.exc,
                       path |-> "", pre |-> store[u], t |-> clock,
                       email |-> "", fault |-> fault,
                       after |-> IF last.op = "check" /\ last.user = u THEN last.path ELSE "",
                       was |-> IF last.op = "check" /\ last.user = u THEN last.was ELSE -1,
                       den |-> -1]
           /\ run' = [run EXCEPT ![u] =
                        LET h == IF res.exc \/ req[r].ep # "generate"
                                 THEN run[u] ELSE Recorded(run[u])
                        IN  IF res.exc \/ ~run[u].valid \/ WindowOver(store[u], clock)
                            THEN [h EXCEPT !.n = 0, !.valid = FALSE]
                            ELSE [h EXCEPT !.n = run[u].n + 1, !.valid = TRUE]]
    /\ UNCHANGED <<clock, mig>>

Increment(r) == IncrementCall(r, "none")

IncrementFails(r) == IncrementCall(r, "txn")

\* increment_generation_count step by step.  The transaction begins and its
\* body reads the record; a missing record makes the body raise.
BeginIncrement(r) ==
    /\ req[r].pc = "inc"
    /\ LET u == req[r].user
       IN  IF store[u].exists
           THEN /\ req' = [req EXCEPT ![r].pc = "commit", ![r].kind = "",
                                      ![r].incs = @ + 1, ![r].snap = store[u],
                                      ![r].tries = 1]
                /\ UNCHANGED <<last, run>>
           ELSE /\ req' = [req EXCEPT ![r].pc = "done", ![r].kind = "",
                                      ![r].incs = @ + 1, ![r].status = 500]
                /\ last' = [op |-> "increment", user |-> u, ret |-> FALSE, exc |-> TRUE,
                            path |-> "", pre |-> store[u], t |-> clock, email |-> "",
                            fault |-> "none", after |-> "", was |-> -1,
                            den |-> -1]
                /\ run' = [run EXCEPT ![u] = [run[u] EXCEPT !.n = 0, !.valid = FALSE]]
    /\ UNCHANGED <<store, clock, mig>>

\* The transaction commits what its body wrote.
CommitIncrement(r) ==
    /\ req[r].pc = "commit"
    /\ GetDaily(store[req[r].user]) < MaxCount
    /\ LET u == req[r].user
           res == commit_increment(req[r].snap, store[u], clock)
       IN  /\ res.ok
           /\ store' = [store EXCEPT ![u] = res.doc]
           /\ req' = [req EXCEPT ![r].pc = "done", ![r].status = 200, ![r].snap = NoDoc,
                                 ![r].tries = 0]
           /\ last' = [op |-> "increment", user |-> u, ret |-> TRUE, exc |-> FALSE,
                       path |-> IF req[r].tries > 1 THEN "retried" ELSE "", pre |-> store[u], t |-> clock, email |-> "",
                       fault |-> "none", after |-> "", was |-> -1,
                            den |-> -1]
           /\ run' = [run EXCEPT ![u] =
                        LET h == IF req[r].ep # "generate"
                                 THEN run[u] ELSE Recorded(run[u])
                        IN  IF ~run[u].valid \/ WindowOver(store[u], clock)
                            THEN [h EXCEPT !.n = 0, !.valid = FALSE]
                            ELSE [h EXCEPT !.n = run[u].n + 1, !.valid = TRUE]]
    /\ UNCHANGED <<clock, mig>>

\* The commit is refused and the decorator runs the body again: it reads the
\* record as it is now.  (A transaction that runs out of attempts raises: that
\* is IncrementFails.)
RetryIncrement(r) ==
    /\ req[r].pc = "commit"
    /\ ~commit_increment(req[r].snap, store[req[r].user], clock).ok
    /\ req' = [req EXCEPT ![r].snap = store[req[r].user], ![r].tries = @ + 1]
    /\ UNCHANGED <<store, clock, last, run, mig>>

\* check_generation_limit step by step.  The transaction begins and its body
\* reads the record.
BeginCheck(r) ==
    /\ req[r].pc = "check"
    /\ req' = [req EXCEPT ![r].pc = "ccommit", ![r].snap = store[req[r].user],
                          ![r].unseen = ~store[req[r].user].exists]
    /\ UNCHANGED <<store, clock, last, run, mig>>

\* The transaction commits what its body wrote, and check returns.
CommitCheck(r) ==
    /\ req[r].pc = "ccommit"
    /\ LET u == req[r].user
           c == commit_check(req[r].snap, store[u], "a@x", clock)
           can == IF c.res.exc THEN TRUE ELSE c.res.ret
       IN  /\ c.ok
           /\ store' = [store EXCEPT ![u] = c.res.doc]
           /\ req' = [req EXCEPT ![r].can = can, ![r].snap = NoDoc,
                                 ![r].pc = IF can THEN "gen" ELSE "denied",
                                 ![r].read = IF req[r].snap.exists
                                             THEN GetDaily(req[r].snap) ELSE -1]
           /\ last' = [op |-> "check", user |-> u, ret |-> c.res.ret, exc |-> c.res.exc,
                       path |-> c.res.path, pre |-> store[u], t |-> clock,
                       email |-> "a@x", fault |-> "none", after |-> "",
                       was |-> store[u].daily,
                       den |-> IF last.op = "check" /\ last.user = u /\ ~last.ret
                               THEN last.t ELSE -1]
           /\ run' = [run EXCEPT ![u] = IF c.res.path \in {"create", "reset"}
                                         THEN [@ EXCEPT !.n = 0, !.valid = TRUE] ELSE @]
    /\ UNCHANGED <<clock, mig>>

\* The commit is refused and the decorator runs the body again: it reads the
\* record as it is now.
RetryCheck(r) ==
    /\ req[r].pc = "ccommit"
    /\ ~commit_check(req[r].snap, store[req[r].user], "a@x", clock).ok
    /\ req' = [req EXCEPT ![r].snap = store[req[r].user]]
    /\ UNCHANGED <<store, clock, last, run, mig>>

\* POST /migrate-users: users_ref.stream() returns the documents of the
\* collection.
StartMigrate ==
    /\ mig.pc \in {"idle", "done"}
    /\ mig.runs < MaxRuns
    /\ mig' = [mig EXCEPT !.pc = "loop", !.seen = store,
                          !.todo = {u \in Users : store[u].exists}, !.runs = @ + 1]
    /\ UNCHANGED <<store, clock, req, last, run>>

\* One turn of the loop, for the document of user u.
MigrateUser(u) ==
    /\ mig.pc = "loop"
    /\ u \in mig.todo
    /\ store' = [store EXCEPT ![u] = backfill(mig.seen[u], store[u], clock)]
    /\ mig' = [mig EXCEPT !.todo = @ \ {u}]
    /\ UNCHANGED <<clock, req, last, run>>

\* The loop is through: "Migration completed successfully".
MigrateEnd ==
    /\ mig.pc = "loop"
    /\ mig.todo = {}
    /\ mig' = [mig EXCEPT !.pc = "done", !.seen = NoMig.seen,
                          !.left = IF mig.runs = 1 THEN store ELSE @]
    /\ UNCHANGED <<store, clock, req, last, run>>

\* A store call of the loop raises: except Exception ends the run where it
\* stands.
MigrateFails ==
    /\ mig.pc = "loop"
    /\ mig.todo # {}
    /\ mig' = [mig EXCEPT !.pc = "done", !.seen = NoMig.seen, !.todo = {}, !.ok = FALSE,
                          !.left = IF mig.runs = 1 THEN store ELSE @]
    /\ UNCHANGED <<store, clock, req, last, run>>

\* GET /simple-check/{user_id} for user u.
SimpleCheck(r, u) ==
    /\ req[r].pc = "idle"
    /\ \E fault \in {"none", "read"} :
          LET res == simple_user_check(store[u], fault)
          IN  req' = [req EXCEPT ![r] = [IdleReq EXCEPT !.pc = "done", !.ep = "simple",
                                                        !.user = u, !.status = res.status,
                                                        !.can = res.can, !.rem = res.rem]]
    /\ UNCHANGED <<store, clock, last, run, mig>>

\* GET /debug/user/{user_id} for user u.
DebugUser(r, u) ==
    /\ req[r].pc = "idle"
    /\ \E fault \in {"none", "read"} :
          LET res == debug_user_status(store[u], clock, fault)
          IN  req' = [req EXCEPT ![r] = [IdleReq EXCEPT !.pc = "done", !.ep = "debug",
                                                        !.user = u, !.status = res.status,
                                                        !.can = res.can, !.rem = res.rem]]
    /\ UNCHANGED <<store, clock, last, run, mig>>

\* The response is sent and the slot is free for the next request.
Finish(r) ==
    /\ req[r].pc = "done"
    /\ req' = [req EXCEPT ![r] = IdleReq]
    /\ UNCHANGED <<store, clock, last, run, mig>>

\* Time passes.
Tick ==
    /\ clock < MaxTime
    /\ clock' = clock + 1
    /\ run' = Aged(run, 1)
    /\ UNCHANGED <<store, req, last, mig>>

\* At most one request is handled at a time.
Alone(r) == \A q \in Reqs \ {r} : req[q].pc \in {"idle", "done"}

\* No request has arrived yet.
First(r) == \A q \in Reqs : req[q].pc = "idle"

\* ----------------------------------------------------------- specifications
\* The whole service: both endpoints, requests of two users in flight
\* together, store faults.  Each slot serves one request.
Next ==
    \/ \E r \in Reqs, u \in Users : StartGenerate(r, u)
    \/ \E r \in Reqs, u \in Users : StartImage(r, u)
    \/ \E r \in Reqs : Check(r)
    \/ \E r \in Reqs : CheckTxnFails(r)
    \/ \E r \in Reqs : CheckReadFails(r)
    \/ \E r \in Reqs : CheckClientFails(r)
    \/ \E r \in Reqs : Deny(r)
    \/ \E r \in Reqs : Generate(r)
    \/ \E r \in Reqs : Increment(r)
    \/ \E r \in Reqs : IncrementFails(r)
    \/ Tick

Spec == Init /\ [][Next]_vars

\* One /generate request of one user, no store fault, on a record of any
\* content.
NextSeq ==
    \/ \E r \in Reqs : First(r) /\ StartGenerate(r, "u1")
    \/ \E r \in Reqs : Check(r)
    \/ \E r \in Reqs : Deny(r)
    \/ \E r \in Reqs : Generate(r)
    \/ \E r \in Reqs : Increment(r)
    \/ Tick

SpecSeq == InitAny /\ [][NextSeq]_vars

\* As SpecSeq, with the store faults.
NextFault ==
    \/ \E r \in Reqs : First(r) /\ StartGenerate(r, "u1")
    \/ \E r \in Reqs : Check(r)
    \/ \E r \in Reqs : CheckTxnFails(r)
    \/ \E r \in Reqs : CheckReadFails(r)
    \/ \E r \in Reqs : CheckClientFails(r)
    \/ \E r \in Reqs : Deny(r)
    \/ \E r \in Reqs : Generate(r)
    \/ \E r \in Reqs : Increment(r)
    \/ \E r \in Reqs : IncrementFails(r)
    \/ Tick

SpecFault == InitAny /\ [][NextFault]_vars

\* /generate requests of one user handled one at a time over and over, no
\* store fault, on records the gate left.
NextRun ==
    \/ \E r \in Reqs : Alone(r) /\ StartGenerate(r, "u1")
    \/ \E r \in Reqs : Check(r)
    \/ \E r \in Reqs : Deny(r)
    \/ \E r \in Reqs : Generate(r)
    \/ \E r \in Reqs : Increment(r)
    \/ \E r \in Reqs : Finish(r)
    \/ Tick

SpecRun == InitGate /\ [][NextRun]_vars

\* As SpecRun, on records at the limit with a window anchor of any form.
SpecAgain == InitAgain /\ [][NextRun]_vars

\* As SpecRun, on records inside a running window under a plan that does not
\* expire while the clock runs.
SpecRoll == InitRoll /\ [][NextRun]_vars

\* /generate requests of one user in flight together over and over inside one
\* window: no store fault, the clock stands still.
NextRace ==
    \/ \E r \in Reqs : StartGenerate(r, "u1")
    \/ \E r \in Reqs : Check(r)
    \/ \E r \in Reqs : Deny(r)
    \/ \E r \in Reqs : Generate(r)
    \/ \E r \in Reqs : Increment(r)
    \/ \E r \in Reqs : Finish(r)

SpecRace == Init /\ [][NextRace]_vars

\* /generate requests of one user that has no record yet, in flight together
\* over and over, the transaction of check taken step by step: begin and
\* read, commit or retry.  No store fault, the clock stands still.
NextNew ==
    \/ \E r \in Reqs : StartGenerate(r, "u1")
    \/ \E r \in Reqs : BeginCheck(r)
    \/ \E r \in Reqs : CommitCheck(r)
    \/ \E r \in Reqs : RetryCheck(r)
    \/ \E r \in Reqs : Deny(r)
    \/ \E r \in Reqs : Generate(r)
    \/ \E r \in Reqs : Increment(r)
    \/ \E r \in Reqs : Finish(r)

SpecNew == InitNew /\ [][NextNew]_vars

\* /generate-with-image requests of one user in flight together inside one
\* window, one per slot, the transaction of increment taken step by step:
\* begin and read, commit or retry.
NextInc ==
    \/ \E r \in Reqs : StartImage(r, "u1")
    \/ \E r \in Reqs : Generate(r)
    \/ \E r \in Reqs : BeginIncrement(r)
    \/ \E r \in Reqs : CommitIncrement(r)
    \/ \E r \in Reqs : RetryIncrement(r)

SpecInc == InitCount /\ [][NextInc]_vars

\* One /generate request of one user while the migration runs, on records of
\* before and after the migration.
NextMig ==
    \/ \E r \in Reqs : First(r) /\ StartGenerate(r, "u1")
    \/ \E r \in Reqs : Check(r)
    \/ \E r \in Reqs : Deny(r)
    \/ \E r \in Reqs : Generate(r)
    \/ \E r \in Reqs : Increment(r)
    \/ StartMigrate
    \/ \E u \in Users : MigrateUser(u)
    \/ MigrateEnd
    \/ MigrateFails
    \/ Tick

SpecMig == InitMig /\ [][NextMig]_vars

\* The migration alone, run after run, on a collection of several users.
NextBackfill ==
    \/ StartMigrate
    \/ \E u \in Users : MigrateUser(u)
    \/ MigrateEnd
    \/ MigrateFails
    \/ Tick

SpecBackfill == InitBackfill /\ [][NextBackfill]_vars

\* The read endpoints, on records of any counts and any window anchor.
NextView ==
    \/ \E r \in Reqs, u \in Users : SimpleCheck(r, u)
    \/ \E r \in Reqs, u \in Users : DebugUser(r, u)
    \/ \E r \in Reqs : Finish(r)
    \/ Tick

SpecView == InitView /\ [][NextView]_vars

\* =================================================================== claims
Quiet == \A r \in Reqs : req[r].pc \in {"idle", "done"}

PlanLimit(d) == IF GetPlan(d) = "pro" THEN PRO_LIMIT ELSE FREE_LIMIT

\* C1 (SpecRace): once concurrent /generate requests of one user have all
\* finished -- each ran check and, only if check returned true, increment, the
\* plan fixed, inside one window, every transaction committed -- the stored
\* dailyGenerations is at most the stored maxDailyGenerations.
C1_LimitHeldAfterRequests ==
    Quiet => \A u \in Users :
                store[u].exists => GetDaily(store[u]) <= GetMax(store[u])

\* C2 (SpecSeq): the first check of a user with no record returns true and
\* leaves plan=free, maxDailyGenerations=3, dailyGenerations=0, the given
\* email and firstGenerationDate = lastGenerationDate = the time of the call.
C2_FirstCheckCreatesRecord ==
    (last.op = "check" /\ ~last.pre.exists) =>
        LET d == store[last.user]
        IN  /\ last.ret
            /\ d.exists /\ d.plan = "free" /\ d.max = 3 /\ d.daily = 0
            /\ d.email = last.email
            /\ d.first = TimeTS(last.t, FALSE) /\ d.last = d.first

\* C3 (SpecRun): in a sequential run of (check; increment) pairs of one user
\* inside one window that started with dailyGenerations=0, after N pairs
\* dailyGenerations is N, and every check made while fewer pairs than
\* maxDailyGenerations are done returns true.
C3_RunOfPairsCounts ==
    \A u \in Users :
        run[u].valid =>
            /\ GetDaily(store[u]) = run[u].n
            /\ (last.op = "check" /\ last.user = u /\ run[u].n < GetMax(store[u]))
                   => last.ret

\* A run of twenty pairs under the pro plan is complete.
C3_Witness ==
    /\ run["u1"].valid /\ run["u1"].n = PRO_LIMIT
    /\ store["u1"].plan = "pro" /\ store["u1"].daily = PRO_LIMIT

\* The count was at the stored limit, inside the window, when check ran.
AtLimitInWindow ==
    /\ last.op = "check" /\ last.pre.exists
    /\ last.pre.daily # -1 /\ last.pre.daily = last.pre.max
    /\ ~WindowOver(last.pre, last.t)

\* C4 as stated (SpecFault), for the checks that met no store fault: whenever
\* dailyGenerations equals maxDailyGenerations and less than 24 hours have
\* passed since the window anchor, the next check returns false.
C4_AtLimitDenied == (AtLimitInWindow /\ last.fault = "none") => ~last.ret

\* C4 as amended (SpecFault): whenever dailyGenerations equals
\* maxDailyGenerations, maxDailyGenerations is the limit of the stored plan,
\* less than 24 hours have passed since the window anchor, and the check can
\* read the record (in its transaction or in its fallback), the next check
\* returns false.
C4_AtPlanLimitDenied ==
    (/\ AtLimitInWindow /\ last.pre.max = PlanLimit(last.pre)
     /\ last.fault # "read") => ~last.ret

\* A pro user at 20 of 20 inside the window was denied by a committed check.
C4_Witness ==
    /\ AtLimitInWindow /\ last.pre.plan = "pro" /\ last.pre.daily = PRO_LIMIT
    /\ last.fault = "none" /\ last.path = "count" /\ ~last.ret

\* C5 (SpecSeq): whenever the current time is at least 24 hours, boundary
\* included, past the record's firstGenerationDate, check returns true
\* whatever the count and the plan, and leaves dailyGenerations=0 and
\* firstGenerationDate = lastGenerationDate = now.
C5_ExpiredWindowResets ==
    (/\ last.op = "check" /\ last.pre.exists
     /\ last.pre.first.kind = "time" /\ last.t - last.pre.first.t >= DAY) =>
        LET d == store[last.user]
        IN  /\ last.ret
            /\ d.daily = 0
            /\ d.first.kind = "time" /\ d.first.t = last.t /\ d.last = d.first

\* C6 (SpecSeq): when increment runs directly after a check that reset the
\* window, dailyGenerations becomes exactly 1, whatever it was before the
\* reset.
C6_IncrementAfterResetIsOne ==
    (last.op = "increment" /\ last.ret /\ last.after = "reset") =>
        store[last.user].daily = 1

\* A count of 20 was reset by check and the increment that followed left 1.
C6_Witness ==
    /\ last.op = "increment" /\ last.ret /\ last.after = "reset"
    /\ last.was = PRO_LIMIT /\ store[last.user].daily = 1

\* C7 (SpecSeq): when the record has plan=pro and a planExpiry that has
\* passed, the next check leaves plan=free, maxDailyGenerations=3 and no
\* planExpiry, and decides against the limit 3.
C7_ExpiredProDowngraded ==
    (/\ last.op = "check" /\ last.pre.exists /\ last.pre.plan = "pro"
     /\ last.pre.expiry.kind = "time" /\ last.t > last.pre.expiry.t) =>
        LET d == store[last.user]
        IN  /\ d.plan = "free" /\ d.max = FREE_LIMIT /\ d.expiry = NoneTS
            /\ last.path # "reset" => (last.ret <=> GetDaily(last.pre) < FREE_LIMIT)

\* C8 (SpecFault): check never raises to its caller, whatever the record
\* holds and whatever store call fails.
C8_CheckNeverRaises == last.op = "check" => ~last.exc

\* A check whose store client failed, and one whose transaction raised on a
\* naive and an aware timestamp, have returned.
C8_Witness ==
    /\ last.op = "check" /\ ~last.exc
    /\ last.fault = "client" \/ (last.fault = "none" /\ last.path = "fallback")

\* C9 (SpecFault): check returns false only when it has read a record whose
\* dailyGenerations is not below its maxDailyGenerations; when neither the
\* transaction nor any read succeeds it returns true.
C9_FailsOpen ==
    last.op = "check" =>
        /\ ~last.ret => (/\ last.fault \in {"none", "txn"}
                         /\ store[last.user].exists
                         /\ ~CanGenerate(store[last.user]))
        /\ last.fault \in {"read", "client"} => last.ret

\* C10 (Spec): on every generation endpoint the pipeline and increment run
\* for a request only after check returned true for it.
C10_CheckedBeforeGeneration ==
    \A r \in Reqs : req[r].pc \in {"gen", "inc"} => req[r].can

\* The record as the last check left it (the second clock read matters to a
\* creation only, and a creation returns true).
AfterLastCheck ==
    check_generation_limit(last.pre, last.email, last.t, last.t, last.fault).doc

\* The handler of request r has answered a check that returned false.
Denied(r) == req[r].ep = "generate" /\ req[r].pc = "done" /\ ~req[r].can

\* C11 (SpecFault): on /generate, whenever check returns false the response
\* is 429 with the stored counts (<current>/<max>) and the upsell suffix
\* exactly when the stored plan is free; the pipeline and increment do not
\* run and the handler writes nothing to the user record.
C11_DeniedWith429 ==
    \A r \in Reqs :
        Denied(r) =>
            LET d == store[req[r].user]
            IN  /\ req[r].status = 429
                /\ req[r].cur = GetDaily(d) /\ req[r].max = GetMax(d)
                /\ req[r].upsell <=> d.plan = "free"
                /\ ~req[r].ran /\ req[r].incs = 0
                /\ last.op = "check" /\ d = AfterLastCheck

\* C12 (SpecSeq): for every request that check approved and whose pipeline
\* was attempted, the handler invokes increment exactly once, whether the
\* pipeline reported success or failure.
C12_IncrementOncePerAttempt ==
    \A r \in Reqs :
        (req[r].pc = "done" /\ req[r].can /\ req[r].ran) => req[r].incs = 1

\* C13 (Spec): whenever increment is invoked for a user, that user's record
\* already exists in the store.
C13_IncrementFindsRecord == last.op = "increment" => last.pre.exists

\* C14 (SpecFault): increment has no fail-open fallback: when its transaction
\* fails or the user record does not exist it raises to the caller and
\* leaves the store as it was (no record created, no counter modified).
C14_IncrementRaises ==
    (last.op = "increment" /\ (last.fault # "none" \/ ~last.pre.exists)) =>
        /\ last.exc
        /\ store[last.user] = last.pre
        /\ \A r \in Reqs : (req[r].pc = "done" /\ req[r].incs = 1) => req[r].status = 500

\* An increment whose transaction failed on a record at 3 of 3 has raised and
\* the record still holds 3.
C14_Witness ==
    /\ last.op = "increment" /\ last.fault = "txn" /\ last.exc
    /\ last.pre.exists /\ last.pre.daily = FREE_LIMIT
    /\ store[last.user].daily = FREE_LIMIT

\* The increment calls of user u that have committed.
Committed(u) ==
    {r \in Reqs : req[r].user = u /\ req[r].pc = "done" /\ req[r].status = 200}

\* C15 (SpecInc): no update to the counter is lost: each commit of increment
\* inside the window adds one to what the store held, so that after k calls
\* of one user that ran concurrently and all committed, in a window that
\* began at 0, dailyGenerations is k.
C15_NoLostUpdate ==
    \A u \in Users :
        /\ (last.op = "increment" /\ last.user = u /\ ~last.exc) =>
               store[u].daily = GetDaily(last.pre) + 1
        /\ run[u].valid => store[u].daily = Cardinality(Committed(u))

\* Every call has committed in a window that began at 0, the last of them
\* after another call's commit made its transaction run again.
C15_Witness ==
    /\ run["u1"].valid
    /\ Cardinality(Committed("u1")) = NumReqs /\ store["u1"].daily = NumReqs
    /\ last.op = "increment" /\ ~last.exc /\ last.path = "retried"

\* The last call was a check that committed its transaction on a record it
\* found.
CheckCommitted ==
    last.op = "check" /\ last.pre.exists /\ last.path \in {"reset", "count"}

\* C16 (SpecSeq): after every check that commits its transaction on an
\* existing record, the stored maxDailyGenerations is 3 when the stored plan
\* is free and 20 when it is pro, also when the field was missing or wrong
\* before.
C16_MaxAgreesWithPlan ==
    CheckCommitted =>
        LET d == store[last.user]
        IN  /\ d.plan = "free" => d.max = FREE_LIMIT
            /\ d.plan = "pro" => d.max = PRO_LIMIT

\* C17 (SpecMig): across every interleaving of check, increment and the
\* migration backfill for one user, the stored firstGenerationDate never moves
\* to an earlier time than it held.
C17_AnchorNeverMovesBack ==
    [][\A u \in Users :
          (store[u].first.kind = "time" /\ store'[u].first.kind = "time") =>
              store'[u].first.t >= store[u].first.t]_vars

\* C18 (SpecBackfill): the migration backfill is idempotent: for every set of
\* user records, a run made directly after a run that went through changes no
\* record.
C18_BackfillIdempotent == (mig.runs >= 2 /\ mig.ok) => store = mig.left

\* A second run is through after a first that gave one user an unparsable
\* lastGenerationDate as its anchor and another the time of the run.
C18_Witness ==
    /\ mig.runs = 2 /\ mig.pc = "done" /\ mig.ok
    /\ store["u1"].first = BadTS /\ store["u2"].first = TimeTS(DAY + 1, FALSE)

\* What the claim says a turn of the loop does to the record d at time now.
Backfilled(d, now) ==
    IF d.first.kind = "absent"
    THEN [d EXCEPT !.first = IF d.last.kind = "absent" THEN TimeTS(now, FALSE) ELSE d.last]
    ELSE d

\* C19 (SpecMig): the migration backfill sets firstGenerationDate on every
\* record that lacks the field, to that record's lastGenerationDate when it
\* has one and to now otherwise, and changes no other field and no record
\* that already has firstGenerationDate.
C19_BackfillFrame ==
    /\ [][\A u \in Users :
             MigrateUser(u) => store' = [store EXCEPT ![u] = Backfilled(store[u], clock)]]_vars
    /\ [](mig.pc = "done" /\ mig.ok =>
             \A u \in Users : store[u].exists => store[u].first.kind # "absent")

\* Request r was answered 200 by a read endpoint.
Viewed(r) == req[r].ep \in {"simple", "debug"} /\ req[r].pc = "done" /\ req[r].status = 200

\* C20 (SpecView): the simple-check and debug endpoints are read-only
\* snapshots: they never write the user record, and what they report is
\* canGenerate = (dailyGenerations < maxDailyGenerations) and
\* remainingGenerations = max(0, maxDailyGenerations - dailyGenerations),
\* which is never negative.
C20_ViewsReadOnly ==
    /\ [][(\E r \in Reqs, u \in Users : SimpleCheck(r, u) \/ DebugUser(r, u))
             => store' = store]_vars
    /\ [](\A r \in Reqs :
             Viewed(r) =>
                 LET d == store[req[r].user]
                     diff == GetMax(d) - GetDaily(d)
                 IN  /\ d.exists
                     /\ req[r].can <=> GetDaily(d) < GetMax(d)
                     /\ req[r].rem = IF diff > 0 THEN diff ELSE 0
                     /\ req[r].rem >= 0)

\* Both endpoints have answered for a record that holds 20 of 3: canGenerate
\* false, remainingGenerations 0.
C20_Witness ==
    /\ store["u1"].daily = PRO_LIMIT /\ store["u1"].max = FREE_LIMIT
    /\ \E r, q \in Reqs :
          /\ Viewed(r) /\ req[r].ep = "simple" /\ req[r].user = "u1"
          /\ Viewed(q) /\ req[q].ep = "debug" /\ req[q].user = "u1"
          /\ ~req[r].can /\ req[r].rem = 0 /\ ~req[q].can /\ req[q].rem = 0

\* C21 (SpecFault): when the transaction of check fails and the record can
\* still be read and exists, check returns exactly
\* (dailyGenerations < maxDailyGenerations) of the record as read, missing
\* fields read as 0 and 3, with no window reset and no expiry downgrade, and
\* writes nothing to the store.
C21_FallbackReadsOnly ==
    (last.op = "check" /\ last.path = "fallback" /\ last.pre.exists) =>
        LET count == IF last.pre.daily = -1 THEN 0 ELSE last.pre.daily
            limit == IF last.pre.max = -1 THEN 3 ELSE last.pre.max
        IN  /\ ~last.exc
            /\ last.ret <=> count < limit
            /\ store[last.user] = last.pre

\* A failed transaction left a pro record at 20 of 20 as it was, window over
\* and plan expired, and check returned false.
C21_Witness ==
    /\ last.op = "check" /\ last.fault = "txn" /\ last.path = "fallback"
    /\ last.pre.plan = "pro" /\ last.pre.daily = PRO_LIMIT /\ last.pre.max = PRO_LIMIT
    /\ last.pre.first = TimeTS(0, FALSE) /\ last.pre.expiry = TimeTS(0, FALSE)
    /\ last.t >= DAY /\ ~last.ret /\ store[last.user] = last.pre

\* The window anchor of record d at time now as the claim has it:
\* firstGenerationDate when it parses, else lastGenerationDate when it parses,
\* else now.
StatedAnchor(d, now) ==
    IF d.first.kind = "time" THEN d.first.t
    ELSE IF d.last.kind = "time" THEN d.last.t
    ELSE now

\* C22 (SpecSeq): in check and in increment the window anchor is
\* firstGenerationDate when it is present and parsable, otherwise
\* lastGenerationDate when that is present and parsable, and the current time
\* only when both are absent or unparsable -- seen in what the anchor
\* decides: the window is reset exactly when 24 hours have passed since it.
C22_AnchorFallsBackToLast ==
    LET over == last.t - StatedAnchor(last.pre, last.t) >= DAY
        d == store[last.user]
    IN  /\ CheckCommitted => (last.path = "reset" <=> over)
        /\ (last.op = "increment" /\ ~last.exc) =>
               d.daily = IF over THEN 1 ELSE GetDaily(last.pre) + 1

\* C23 (SpecSeq): for every combination of timezone-aware or naive
\* firstGenerationDate and timezone-aware or naive planExpiry, check finishes
\* inside its transaction: with no store fault it never answers from the
\* non-transactional fallback.
C23_NoTimezoneFailure ==
    (last.op = "check" /\ last.fault = "none") =>
        last.path \in {"create", "reset", "count"}

\* C24 (SpecFault): increment never re-checks the limit: when at least 24
\* hours have elapsed since the anchor it sets dailyGenerations=1 and
\* firstGenerationDate=lastGenerationDate=now; otherwise it adds exactly 1 to
\* dailyGenerations, also at or past maxDailyGenerations, sets
\* lastGenerationDate=now and leaves firstGenerationDate unchanged.
C24_IncrementIgnoresLimit ==
    (last.op = "increment" /\ ~last.exc) =>
        LET pre == last.pre
            d == store[last.user]
            anchor == FirstGenDate(pre, last.t)
            now == [kind |-> "time", t |-> last.t, aware |-> anchor.aware]
        IN  IF last.t - anchor.t >= DAY
            THEN d.daily = 1 /\ d.first = now /\ d.last = now
            ELSE /\ d.daily = (IF pre.daily = -1 THEN 0 ELSE pre.daily) + 1
                 /\ d.last = now /\ d.first = pre.first

\* An increment inside the window took a pro record from 20 of 20 to 21.
C24_Witness ==
    /\ last.op = "increment" /\ ~last.exc
    /\ last.pre.daily = PRO_LIMIT /\ last.pre.max = PRO_LIMIT
    /\ last.t - FirstGenDate(last.pre, last.t).t < DAY
    /\ store[last.user].daily = PRO_LIMIT + 1

\* C25 (SpecAgain): a user denied by check is approved again: for every
\* stored form of firstGenerationDate and lastGenerationDate (valid, absent
\* or unparsable), the user's next check, made once 24 hours have passed
\* since the denial, returns true.
C25_ApprovedAfterADay ==
    (last.op = "check" /\ last.den # -1 /\ last.t - last.den >= DAY) => last.ret

RECURSIVE SumGens(_, _)
SumGens(g, i) == IF i = 0 THEN 0 ELSE g[i] + SumGens(g, i - 1)

InLastDay(u) == SumGens(run[u].gens, DAY)

\* C27 (SpecRoll): under a plan that does not change, with requests handled
\* one at a time and committing transactions, the generations approved by
\* check and recorded by increment for one user inside a span of 24 hours
\* never number more than maxDailyGenerations.
C27_WindowRolls ==
    \A u \in Users : store[u].exists => InLastDay(u) <= GetMax(store[u])

\* C28 (SpecRun): with requests of a user handled one at a time and
\* committing transactions, dailyGenerations <= maxDailyGenerations in every
\* reachable state of the record, also after check downgraded an expired pro
\* plan to free.
C28_CountWithinLimit ==
    \A u \in Users : store[u].exists => GetDaily(store[u]) <= GetMax(store[u])

\* The check calls of /generate that began while the user had no record and
\* have returned.
UnseenChecked == {r \in Reqs : req[r].unseen /\ req[r].pc \notin {"check", "ccommit"}}

\* A creation is committed only onto a missing record: the record is created
\* once, and no creation replaces what another transaction committed.
CreatedOnce == (last.op = "check" /\ last.path = "create") => ~last.pre.exists

\* C29 as stated (SpecNew): when check calls for the same unseen user run
\* concurrently, interleaved with increment calls for that user, the record is
\* created exactly once, a creation never overwrites a committed counter or
\* window value, and every one of those checks returns true.
C29_UnseenChecksApproved ==
    /\ CreatedOnce
    /\ \A r \in UnseenChecked : req[r].can

\* C29 as amended (SpecNew): the record is created exactly once, a creation
\* never overwrites a committed counter or window value, and each of those
\* checks returns true exactly when it created the record or the record its
\* committed attempt read held fewer than 3 generations.
C29_UnseenChecksSerialized ==
    /\ CreatedOnce
    /\ \A r \in UnseenChecked : req[r].can <=> req[r].read < FREE_LIMIT

\* A check that began on the unseen user ran again after another check had
\* created the record and three generations had been counted: it is denied.
C29_Witness ==
    \E r \in Reqs :
        /\ req[r].unseen /\ req[r].pc = "done" /\ ~req[r].can
        /\ req[r].read = FREE_LIMIT /\ req[r].status = 429
        /\ store["u1"].exists /\ store["u1"].daily = FREE_LIMIT

\* C30 (SpecFault): check never increases dailyGenerations, and a check that
\* returns false leaves dailyGenerations, firstGenerationDate and
\* lastGenerationDate as they were; increment never changes plan,
\* maxDailyGenerations, planExpiry or email; and a record changes only in a
\* call of check or increment for its own user.
C30_FrameEffects ==
    [][\A u \in Users :
           store'[u] # store[u] =>
               /\ last'.op \in {"check", "increment"}
               /\ last'.user = u /\ last'.pre = store[u]
               /\ last'.op = "check" =>
                      /\ GetDaily(store'[u]) <= GetDaily(store[u])
                      /\ ~last'.ret => /\ store'[u].daily = store[u].daily
                                       /\ store'[u].first = store[u].first
                                       /\ store'[u].last = store[u].last
               /\ last'.op = "increment" =>
                      /\ store'[u].plan = store[u].plan
                      /\ store'[u].max = store[u].max
                      /\ store'[u].expiry = store[u].expiry
                      /\ store'[u].email = store[u].email]_vars

\* A check downgraded an expired pro plan and returned false: the count past
\* the free limit and the two dates stand as they were.
C30_Witness ==
    /\ last.op = "check" /\ ~last.ret /\ ~last.exc /\ last.path = "count"
    /\ last.pre.plan = "pro" /\ store[last.user].plan = "free"
    /\ store[last.user].daily = last.pre.daily /\ last.pre.daily >= FREE_LIMIT
    /\ store[last.user].first = last.pre.first /\ store[last.user].last = last.pre.last

====
